---- MODULE Spec2Model ----
(***************************************************************************)
(* Model of src/server.py: the JSON-RPC endpoint POST /a2a/jsonrpc of the  *)
(* A2UI stub agent.  A request body is a JSON text; the handler parses it, *)
(* validates the envelope, routes on the method, extracts the user's text  *)
(* or A2UI event from the message parts, encodes three A2UI messages and   *)
(* wraps them into a task.                                                 *)
(*                                                                         *)
(* JSON values are records [t, s, n]: t is the JSON type, s the content of *)
(* a string, n the value of a number, the truth of a boolean (0/1) or the  *)
(* number of entries of a sample list ([] , [1]) or map ({} , {"a": 1}).   *)
(* t = "absent" stands for a key that is not in its object.                *)
(***************************************************************************)
EXTENDS Integers, Sequences, FiniteSets, TLC

\* ---------------------------------------------------------------- bounds
MaxParts == 2          \* longest parts list of a request
MaxExtractParts == 3   \* longest parts list given to the extractor alone
MaxClock == 1          \* now_iso() returns a tick in 0..MaxClock

\* ------------------------------------------------------------- constants
A2UI_MIME_TYPE == "application/json+a2ui"
V0_8_STANDARD_CATALOG_ID == "https://a2ui.org/specification/v0_8/standard_catalog_definition.json"

\* ----------------------------------------------------------- JSON values
JV(t, s, n) == [t |-> t, s |-> s, n |-> n]
Absent == JV("absent", "", 0)
Null == JV("null", "", 0)
Str(s) == JV("str", s, 0)
Num(n) == JV("num", "", n)
Bool(b) == JV("bool", "", IF b THEN 1 ELSE 0)
List(n) == JV("list", "", n)
Map(n) == JV("map", "", n)
Obj == JV("obj", "", 0)    \* an object whose keys the model spells out
Arr == JV("arr", "", 0)    \* a list whose items the model spells out

\* dict.get(key): a missing key reads as None
Get(v) == IF v.t = "absent" THEN Null ELSE v

\* Python truth value of a parsed JSON value
Truthy(v) ==
    CASE v.t = "null" -> FALSE
      [] v.t = "bool" -> v.n = 1
      [] v.t = "num" -> v.n # 0
      [] v.t = "str" -> v.s # ""
      [] v.t = "list" -> v.n > 0
      [] v.t = "map" -> v.n > 0
      [] OTHER -> FALSE

RECURSIVE IntStr(_)
IntStr(n) ==
    IF n < 10 THEN SubSeq("0123456789", n + 1, n + 1)
    ELSE IntStr(n \div 10) \o SubSeq("0123456789", (n % 10) + 1, (n % 10) + 1)

\* str(v), as an f-string formats v
PyStr(v) ==
    CASE v.t = "null" -> "None"
      [] v.t = "bool" -> IF v.n = 1 THEN "True" ELSE "False"
      [] v.t = "num" -> IntStr(v.n)
      [] v.t = "str" -> v.s
      [] v.t = "list" -> IF v.n = 0 THEN "[]" ELSE "[1]"
      [] v.t = "map" -> IF v.n = 0 THEN "{}" ELSE "{'a': 1}"
      [] OTHER -> ""

\* json.dumps(v, ensure_ascii=False)
JsonDumps(v) ==
    CASE v.t = "null" -> "null"
      [] v.t = "bool" -> IF v.n = 1 THEN "true" ELSE "false"
      [] v.t = "num" -> IntStr(v.n)
      [] v.t = "str" -> "\"" \o v.s \o "\""
      [] v.t = "list" -> IF v.n = 0 THEN "[]" ELSE "[1]"
      [] v.t = "map" -> IF v.n = 0 THEN "{}" ELSE "{\"a\": 1}"
      [] OTHER -> ""

Contains(s, sub) ==
    \/ sub = ""
    \/ \E i \in 1..(Len(s) - Len(sub) + 1) : SubSeq(s, i, i + Len(sub) - 1) = sub

\* -------------------------------------------------------------- requests
\* one element of message.parts: j = Obj for an object with the four keys
\* the extractor reads, any other value for an element that is not an object
Part(j, kind, text, mimeType, data) ==
    [j |-> j, kind |-> kind, text |-> text, mimeType |-> mimeType, data |-> data]
TextPart(text) == Part(Obj, Str("text"), text, Absent, Absent)
DataPart(mimeType, data) == Part(Obj, Str("data"), Absent, mimeType, data)

TextVals == {Absent, Null, Str(""), Str("hi"), Str("yo")}
EventVals == {Absent, Map(0), Map(1), Num(0), Bool(FALSE), List(1)}
PartSet ==
    {TextPart(t) : t \in TextVals}
    \cup {DataPart(Str(A2UI_MIME_TYPE), d) : d \in EventVals}
    \cup {DataPart(Str("application/json"), Map(1)),
          Part(Obj, Str("file"), Str("hi"), Str(A2UI_MIME_TYPE), Map(1)),
          Part(Str("x"), Absent, Absent, Absent, Absent)}

\* the parts a request is built from: the cases the handler tells apart
RequestParts ==
    {TextPart(t) : t \in {Absent, Str(""), Str("hi")}}
    \cup {DataPart(Str(A2UI_MIME_TYPE), d) : d \in {Map(0), Map(1), Num(0), Bool(FALSE)}}
    \cup {DataPart(Str("application/json"), Map(1)),
          Part(Str("x"), Absent, Absent, Absent, Absent)}

SeqsUpTo(S, n) == UNION {[1..k -> S] : k \in 0..n}

\* message.parts: j = Arr for a list (items), any other value otherwise
PartsNode(j, items) == [j |-> j, items |-> items]
PartsNodes(S, n) ==
    {PartsNode(j, <<>>) : j \in {Absent, Null, Num(5)}}
    \cup {PartsNode(Arr, items) : items \in SeqsUpTo(S, n)}

\* params.message: j = Obj for an object (parts), any other value otherwise
MessageNode(j, parts) == [j |-> j, parts |-> parts]
MessageNodes(n) ==
    {MessageNode(j, PartsNode(Absent, <<>>)) : j \in {Absent, Null, Str("x")}}
    \cup {MessageNode(Obj, p) : p \in PartsNodes(RequestParts, n)}

\* params: j = Obj for an object (message), any other value otherwise
ParamsNode(j, message) == [j |-> j, message |-> message]
NoMessage == MessageNode(Absent, PartsNode(Absent, <<>>))
ParamsNodes(n) ==
    {ParamsNode(j, NoMessage) : j \in {Absent, Null, List(0), Str("x")}}
    \cup {ParamsNode(Obj, m) : m \in MessageNodes(n)}

IdVals == {Absent, Null, Str("7"), Num(7)}
JsonrpcVals == {Absent, Str("2.0"), Str("1.0"), Num(2)}
MethodVals == {Absent, Null, Str("message/send"), Str("tasks/get"), Bool(TRUE)}

\* the body of a POST: parses = FALSE for a text that is not JSON; j = Obj
\* for a JSON object (with its keys), another value for any other JSON text
Body(parses, j, id, jsonrpc, method, params) ==
    [parses |-> parses, j |-> j, id |-> id, jsonrpc |-> jsonrpc,
     method |-> method, params |-> params]
NoParams == ParamsNode(Absent, NoMessage)
Bodies ==
    {Body(FALSE, Absent, Absent, Absent, Absent, NoParams)}
    \cup {Body(TRUE, j, Absent, Absent, Absent, NoParams) :
            j \in {Null, List(1), Str("x"), Num(0)}}
    \cup {Body(TRUE, Obj, i, v, m, p) :
            i \in IdVals, v \in JsonrpcVals, m \in MethodVals, p \in ParamsNodes(MaxParts)}

\* ------------------------------------------------------------- utilities
Ticks == 0..MaxClock       \* the values now_iso() can return
Uuids == {"4f1c", "9a2e"}  \* sample values of str(uuid.uuid4())

NoError == [code |-> 0, message |-> ""]
NoTask ==
    [kind |-> "", id |-> "", contextId |-> "",
     status |-> [state |-> "", timestamp |-> 0,
                 message |-> [kind |-> "", role |-> "", messageId |-> "", parts |-> <<>>]],
     artifacts |-> <<>>, history |-> <<>>]

\* a JSONResponse: keys are the keys of its content
JSONResponse(status_code, keys, id, error, result) ==
    [status_code |-> status_code, keys |-> keys, jsonrpc |-> "2.0", id |-> id,
     error |-> error, result |-> result]

jsonrpc_error(req_id, code, message, http_status) ==
    JSONResponse(http_status, {"jsonrpc", "id", "error"}, req_id,
                 [code |-> code, message |-> message], NoTask)

\* an exception that leaves the handler: the framework answers 500 with a
\* body that is no JSON-RPC response
UnhandledException ==
    [status_code |-> 500, keys |-> {}, jsonrpc |-> "", id |-> Null,
     error |-> NoError, result |-> NoTask]

\* a builder that emits the parts last message first
build_task_reversed(a2ui_messages, task_id, context_id, message_id, now) ==
    [kind |-> "task", id |-> task_id, contextId |-> context_id,
     status |-> [state |-> "completed", timestamp |-> now,
                 message |-> [kind |-> "message", role |-> "agent",
                              messageId |-> message_id,
                              parts |-> [i \in 1..Len(a2ui_messages) |->
                                           [kind |-> "data",
                                            mimeType |-> A2UI_MIME_TYPE,
                                            data |-> a2ui_messages[Len(a2ui_messages) + 1 - i]]]]],
     artifacts |-> <<>>, history |-> <<>>]

build_task_with_a2ui_messages(a2ui_messages, task_id, context_id, message_id, now) ==
    [kind |-> "task", id |-> task_id, contextId |-> context_id,
     status |-> [state |-> "completed", timestamp |-> now,
                 message |-> [kind |-> "message", role |-> "agent",
                              messageId |-> message_id,
                              parts |-> [i \in 1..Len(a2ui_messages) |->
                                           [kind |-> "data",
                                            mimeType |-> A2UI_MIME_TYPE,
                                            data |-> a2ui_messages[i]]]]],
     artifacts |-> <<>>, history |-> <<>>]

\* ------------------------------------------------------------- extractor
\* the result dict, and raised = TRUE when the call ended in an exception
ExtractResult(raised, text, a2ui_event, raw_parts) ==
    [raised |-> raised, text |-> text, a2ui_event |-> a2ui_event, raw_parts |-> raw_parts]
NotExtracted == ExtractResult(FALSE, Null, Null, <<>>)

RECURSIVE ExtractLoop(_, _, _)
ExtractLoop(parts, i, result) ==
    IF i > Len(parts) THEN result
    ELSE LET p == parts[i] IN
         IF p.j.t # "obj" THEN [result EXCEPT !.raised = TRUE]
         ELSE IF Get(p.kind) = Str("text") /\ result.text = Null
              THEN ExtractLoop(parts, i + 1, [result EXCEPT !.text = Get(p.text)])
         ELSE IF /\ Get(p.kind) = Str("data")
                 /\ Get(p.mimeType) = Str(A2UI_MIME_TYPE)
                 /\ result.a2ui_event = Null
              THEN ExtractLoop(parts, i + 1, [result EXCEPT !.a2ui_event = Get(p.data)])
         ELSE ExtractLoop(parts, i + 1, result)

\* a loop without the "is None" tests: the last match wins
RECURSIVE ExtractLoopLast(_, _, _)
ExtractLoopLast(parts, i, result) ==
    IF i > Len(parts) THEN result
    ELSE LET p == parts[i] IN
         IF p.j.t # "obj" THEN [result EXCEPT !.raised = TRUE]
         ELSE IF Get(p.kind) = Str("text")
              THEN ExtractLoopLast(parts, i + 1, [result EXCEPT !.text = Get(p.text)])
         ELSE IF Get(p.kind) = Str("data") /\ Get(p.mimeType) = Str(A2UI_MIME_TYPE)
              THEN ExtractLoopLast(parts, i + 1, [result EXCEPT !.a2ui_event = Get(p.data)])
         ELSE ExtractLoopLast(parts, i + 1, result)

extract_last_match(params_message) ==
    IF params_message.j.t # "obj" THEN ExtractResult(TRUE, Null, Null, <<>>)
    ELSE LET got == params_message.parts IN
         IF got.j.t = "arr"
         THEN ExtractLoopLast(got.items, 1, ExtractResult(FALSE, Null, Null, got.items))
         ELSE IF Truthy(Get(got.j)) THEN ExtractResult(TRUE, Null, Null, <<>>)
         ELSE ExtractResult(FALSE, Null, Null, <<>>)

\* params_message is a message node: an object, or a value without .get
extract_user_text_or_a2ui_event(params_message) ==
    IF params_message.j.t # "obj" THEN ExtractResult(TRUE, Null, Null, <<>>)
    ELSE LET got == params_message.parts IN
         IF got.j.t = "arr"
         THEN ExtractLoop(got.items, 1, ExtractResult(FALSE, Null, Null, got.items))
         ELSE IF Truthy(Get(got.j)) THEN ExtractResult(TRUE, Null, Null, <<>>)
         ELSE ExtractResult(FALSE, Null, Null, <<>>)

\* --------------------------------------------------------------- encoder
Component(id, type, children, child, text, usageHint, alignment, action) ==
    [id |-> id, type |-> type, children |-> children, child |-> child,
     text |-> text, usageHint |-> usageHint, alignment |-> alignment, action |-> action]

\* a tree whose OK button names a label that is not declared
ComponentsDangling(title) ==
    << Component("root", "Column", <<"title_text", "row_buttons">>, "", "", "", "", ""),
       Component("title_text", "Text", <<>>, "", title, "h3", "", ""),
       Component("row_buttons", "Row", <<"btn_ok", "btn_cancel">>, "", "", "", "center", ""),
       Component("btn_ok_text", "Text", <<>>, "", "OK", "", "", ""),
       Component("btn_ok", "Button", <<>>, "btn_ok_label", "", "", "", "clicked_ok"),
       Component("btn_cancel_text", "Text", <<>>, "", "Cancel", "", "", ""),
       Component("btn_cancel", "Button", <<>>, "btn_cancel_text", "", "", "", "clicked_cancel") >>

Components(title) ==
    << Component("root", "Column", <<"title_text", "row_buttons">>, "", "", "", "", ""),
       Component("title_text", "Text", <<>>, "", title, "h3", "", ""),
       Component("row_buttons", "Row", <<"btn_ok", "btn_cancel">>, "", "", "", "center", ""),
       Component("btn_ok_text", "Text", <<>>, "", "OK", "", "", ""),
       Component("btn_ok", "Button", <<>>, "btn_ok_text", "", "", "", "clicked_ok"),
       Component("btn_cancel_text", "Text", <<>>, "", "Cancel", "", "", ""),
       Component("btn_cancel", "Button", <<>>, "btn_cancel_text", "", "", "", "clicked_cancel") >>

\* an A2UI message: key is the single key of the dict
A2uiMessage(key, surfaceId, components, path, contents, root, catalogId) ==
    [key |-> key, surfaceId |-> surfaceId, components |-> components, path |-> path,
     contents |-> contents, root |-> root, catalogId |-> catalogId]

a2ui_messages_v0_8(title, now) ==
    LET surface_id == "main"
        surface_update ==
            A2uiMessage("surfaceUpdate", surface_id, Components(title), "", <<>>, "", "")
        data_model_update ==
            A2uiMessage("dataModelUpdate", surface_id, <<>>, "/",
                        << [key |-> "now", valueString |-> now] >>, "", "")
        begin_rendering ==
            A2uiMessage("beginRendering", surface_id, <<>>, "", <<>>, "root",
                        V0_8_STANDARD_CATALOG_ID)
    IN << surface_update, data_model_update, begin_rendering >>

\* ------------------------------------------------------------ dispatcher
\* x or {} , for a params or message node
OrEmptyParams(node) ==
    IF node.j.t = "obj" \/ Truthy(Get(node.j)) THEN node ELSE ParamsNode(Obj, NoMessage)
\* params.get("message") without the "or {}"
MessageNotDefaulted(node) == node
OrEmptyMessage(node) ==
    IF node.j.t = "obj" \/ Truthy(Get(node.j)) THEN node
    ELSE MessageNode(Obj, PartsNode(Absent, <<>>))

\* an id turned into a string on the way
req_id_coerced(body) ==
    LET v == Get(body.id) IN IF v.t = "num" THEN Str(IntStr(v.n)) ELSE v
req_id_of(body) == Get(body.id)

\* a parse error reported with the code of an invalid request
ParseErrorAsInvalid == jsonrpc_error(Null, -32600, "Parse error: invalid JSON", 400)
ParseError == jsonrpc_error(Null, -32700, "Parse error: invalid JSON", 400)

\* a message that does not name the method
MethodNotFoundBare(method) == "Method not found"
MethodNotFound(method) == "Method not found: " \o PyStr(method)

Greeting == "Hello A2UI (v0.8 spec-compliant)"
\* a title that looks at the event before the text
ChooseTitleEventFirst(parsed) ==
    IF Truthy(parsed.a2ui_event) THEN "Got A2UI event: " \o JsonDumps(parsed.a2ui_event)
    ELSE IF Truthy(parsed.text) THEN "You said: " \o PyStr(parsed.text)
    ELSE Greeting
ChooseTitle(parsed) ==
    IF Truthy(parsed.text) THEN "You said: " \o PyStr(parsed.text)
    ELSE IF Truthy(parsed.a2ui_event) THEN "Got A2UI event: " \o JsonDumps(parsed.a2ui_event)
    ELSE Greeting

Outcome(response, steps, parsed) == [response |-> response, steps |-> steps, parsed |-> parsed]

\* the whole of jsonrpc_handler on one body; u = the three uuid4 draws,
\* t1 and t2 = the two now_iso() readings (encoder, then builder)
Handle(body, u, t1, t2) ==
    IF ~body.parses
    THEN Outcome(ParseError, <<"parse">>, NotExtracted)
    ELSE IF body.j.t # "obj"
    THEN Outcome(UnhandledException, <<"parse", "validate">>, NotExtracted)
    ELSE LET req_id == req_id_of(body) IN
    IF Get(body.jsonrpc) # Str("2.0")
    THEN Outcome(jsonrpc_error(req_id, -32600, "Invalid Request: jsonrpc must be '2.0'", 400),
                 <<"parse", "validate">>, NotExtracted)
    ELSE LET method == Get(body.method)
             params == OrEmptyParams(body.params) IN
    IF method # Str("message/send")
    THEN Outcome(jsonrpc_error(req_id, -32601, MethodNotFound(method), 404),
                 <<"parse", "validate", "route">>, NotExtracted)
    ELSE IF params.j.t # "obj"
    THEN Outcome(UnhandledException, <<"parse", "validate", "route", "extract">>, NotExtracted)
    ELSE LET params_message == OrEmptyMessage(params.message)
             parsed == extract_user_text_or_a2ui_event(params_message) IN
    IF parsed.raised
    THEN Outcome(UnhandledException, <<"parse", "validate", "route", "extract">>, parsed)
    ELSE LET title == ChooseTitle(parsed)
             a2ui_msgs == a2ui_messages_v0_8(title, t1)
             task == build_task_with_a2ui_messages(a2ui_msgs, u[1], u[2], u[3], t2) IN
         Outcome(JSONResponse(200, {"jsonrpc", "id", "result"}, req_id, NoError, task),
                 <<"parse", "validate", "route", "extract", "encode", "build", "respond">>,
                 parsed)

\* ----------------------------------------------------------------- state
VARIABLES
    pc,         \* "idle": no request; "pending": a body has arrived; "done": answered
    request,    \* the body of the request in hand
    response,   \* what the handler returned for it
    steps,      \* the pipeline steps the handler entered, in order
    parsed      \* the extractor's result in that run

vars == << pc, request, response, steps, parsed >>

NoRequest == Body(FALSE, Absent, Absent, Absent, Absent, NoParams)
NoResponse ==
    [status_code |-> 0, keys |-> {}, jsonrpc |-> "", id |-> Null,
     error |-> NoError, result |-> NoTask]

Init ==
    /\ pc = "idle"
    /\ request = NoRequest
    /\ response = NoResponse
    /\ steps = <<>>
    /\ parsed = NotExtracted

\* a client POSTs a body to /a2a/jsonrpc
Post ==
    /\ pc = "idle"
    /\ \E body \in Bodies : request' = body
    /\ pc' = "pending"
    /\ UNCHANGED << response, steps, parsed >>

jsonrpc_handler ==
    /\ pc = "pending"
    /\ \E u \in [1..3 -> Uuids], t1 \in Ticks, t2 \in Ticks :
        LET out == Handle(request, u, t1, t2) IN
        /\ response' = out.response
        /\ steps' = out.steps
        /\ parsed' = out.parsed
    /\ pc' = "done"
    /\ UNCHANGED request

\* the response is sent; nothing of the request is kept
Reply ==
    /\ pc = "done"
    /\ pc' = "idle"
    /\ request' = NoRequest
    /\ response' = NoResponse
    /\ steps' = <<>>
    /\ parsed' = NotExtracted

Next == Post \/ jsonrpc_handler \/ Reply

Spec == Init /\ [][Next]_vars

\* the extractor alone, on every value of message.parts up to MaxExtractParts
ExtractInit ==
    /\ pc = "pending"
    /\ \E p \in PartsNodes(PartSet, MaxExtractParts) :
        request = Body(TRUE, Obj, Absent, Str("2.0"), Str("message/send"),
                       ParamsNode(Obj, MessageNode(Obj, p)))
    /\ response = NoResponse
    /\ steps = <<>>
    /\ parsed = NotExtracted

Extract ==
    /\ pc = "pending"
    /\ parsed' = extract_user_text_or_a2ui_event(request.params.message)
    /\ steps' = <<"extract">>
    /\ pc' = "done"
    /\ UNCHANGED << request, response >>

ExtractNext == Extract

SpecExtract == ExtractInit /\ [][ExtractNext]_vars

Handled == pc = "done"
IsSuccess == "result" \in response.keys
IsError == "error" \in response.keys

\* ---------------------------------------------------------------- claims
IsObject == request.parses /\ request.j.t = "obj"
EnvelopeOk == IsObject /\ request.jsonrpc = Str("2.0")
IsSend == EnvelopeOk /\ request.method = Str("message/send")
Entered(step) == \E i \in 1..Len(steps) : steps[i] = step

AgentParts == response.result.status.message.parts
DeclaredComponents == AgentParts[1].data.components
\* the text bound to the title_text component of a success response
TitleOf ==
    LET c == CHOOSE c \in {DeclaredComponents[i] : i \in 1..Len(DeclaredComponents)} :
                 c.id = "title_text"
    IN c.text

\* C1: every success or error response carries the request's id as it was
\* sent, a string as a string and a number as a number, and null when the
\* request has no id, a null id or a body that is not JSON.
C1_IdEchoed ==
    (Handled /\ (IsSuccess \/ IsError)) =>
        response.id = (IF IsObject /\ request.id.t # "absent" THEN request.id ELSE Null)

C1_Witness ==
    /\ Handled /\ IsSuccess
    /\ request.id = Num(7)
    /\ response.id = Num(7)

\* C2: a body that parses and whose jsonrpc is not the string "2.0" (or is
\* missing) is answered with error -32600 and status 400, without a result,
\* and neither routing nor execution is entered.
C2_InvalidRequest ==
    (Handled /\ request.parses /\ ~EnvelopeOk) =>
        /\ IsError /\ ~IsSuccess
        /\ response.error.code = -32600
        /\ response.status_code = 400
        /\ ~Entered("route") /\ ~Entered("extract")

\* the text of a submitted method: a string's content, the JSON text of any
\* other value, nothing for a missing method
SubmittedText(method) ==
    IF method.t = "absent" THEN ""
    ELSE IF method.t = "str" THEN method.s
    ELSE JsonDumps(method)

\* C3 as stated: with a valid envelope and a method other than
\* "message/send", the answer is error -32601 with status 404, its message
\* contains the submitted method value, and no task is built.
C3_Original ==
    (Handled /\ EnvelopeOk /\ request.method # Str("message/send")) =>
        /\ IsError /\ ~IsSuccess
        /\ response.error.code = -32601
        /\ response.status_code = 404
        /\ Contains(response.error.message, SubmittedText(request.method))
        /\ ~Entered("build")

\* C3 amended: with a valid envelope and a method other than "message/send",
\* the answer is error -32601 with status 404, no task is built, and the
\* message is "Method not found: " followed by the method itself when it is a
\* string, by "None" when it is missing or null, by "True" when it is true.
C3_MethodNotFound ==
    (Handled /\ EnvelopeOk /\ request.method # Str("message/send")) =>
        /\ IsError /\ ~IsSuccess
        /\ response.error.code = -32601
        /\ response.status_code = 404
        /\ ~Entered("build")
        /\ response.result = NoTask
        /\ response.error.message =
             "Method not found: " \o
                (CASE request.method.t = "str" -> request.method.s
                   [] request.method.t \in {"absent", "null"} -> "None"
                   [] request.method = Bool(TRUE) -> "True"
                   [] OTHER -> "")

C3_Witness ==
    /\ Handled /\ EnvelopeOk
    /\ request.method = Str("tasks/get")
    /\ response.status_code = 404
    /\ Contains(response.error.message, "tasks/get")

\* C4: a body that is not JSON is answered with error -32700, status 400 and
\* a null id, and no step after parsing is entered.
C4_ParseError ==
    (Handled /\ ~request.parses) =>
        /\ IsError /\ ~IsSuccess
        /\ response.error.code = -32700
        /\ response.status_code = 400
        /\ response.id = Null
        /\ steps = <<"parse">>

C4_Witness ==
    /\ Handled /\ ~request.parses
    /\ response.error.code = -32700

\* C5: every request, whatever its body, ends in one JSON-RPC response: a
\* success with a result and no error, or an error without a result whose
\* code is -32700, -32600 or -32601.
C5_AlwaysJsonRpc ==
    Handled =>
        \/ /\ response.keys = {"jsonrpc", "id", "result"}
           /\ response.status_code = 200
        \/ /\ response.keys = {"jsonrpc", "id", "error"}
           /\ response.error.code \in {-32700, -32600, -32601}

\* a message/send request with params missing, or params an object without
\* message, or message an object whose parts are missing or the empty list
Sparse ==
    /\ IsSend
    /\ \/ request.params.j.t = "absent"
       \/ /\ request.params.j.t = "obj"
          /\ request.params.message.j.t = "absent"
       \/ /\ request.params.j.t = "obj"
          /\ request.params.message.j.t = "obj"
          /\ \/ request.params.message.parts.j.t = "absent"
             \/ /\ request.params.message.parts.j.t = "arr"
                /\ request.params.message.parts.items = <<>>

\* C6: a message/send request with a valid envelope whose params, message or
\* parts are missing (or whose parts are empty) succeeds with status 200 and
\* the title_text component shows the fixed greeting.
C6_SparseSucceeds ==
    (Handled /\ Sparse) =>
        /\ IsSuccess /\ ~IsError
        /\ response.status_code = 200
        /\ TitleOf = "Hello A2UI (v0.8 spec-compliant)"

C6_Witness ==
    /\ Handled /\ IsSend /\ IsSuccess
    /\ request.params.j.t = "obj"
    /\ request.params.message.j.t = "absent"
    /\ TitleOf = "Hello A2UI (v0.8 spec-compliant)"

\* C7: the task of every success response is completed, has no artifacts and
\* no history, and its agent message has exactly three data parts carrying,
\* in this order, surfaceUpdate, dataModelUpdate and beginRendering.
C7_TaskShape ==
    (Handled /\ IsSuccess) =>
        /\ response.result.status.state = "completed"
        /\ response.result.artifacts = <<>>
        /\ response.result.history = <<>>
        /\ Len(AgentParts) = 3
        /\ \A i \in 1..Len(AgentParts) :
             AgentParts[i].kind = "data" /\ AgentParts[i].mimeType = "application/json+a2ui"
        /\ [i \in 1..Len(AgentParts) |-> AgentParts[i].data.key]
             = <<"surfaceUpdate", "dataModelUpdate", "beginRendering">>

C7_Witness ==
    /\ Handled /\ IsSuccess
    /\ Len(AgentParts) = 3
    /\ AgentParts[3].data.key = "beginRendering"

\* the ids a component names as its children
ChildRefs(c) ==
    {c.children[i] : i \in 1..Len(c.children)} \cup (IF c.child = "" THEN {} ELSE {c.child})
DeclaredSet == {DeclaredComponents[i] : i \in 1..Len(DeclaredComponents)}
DeclaredIds == {c.id : c \in DeclaredSet}
RefsOfIds(ids) == UNION {ChildRefs(c) : c \in {d \in DeclaredSet : d.id \in ids}}
RECURSIVE Descendants(_, _)
Descendants(ids, depth) ==
    IF depth = 0 THEN ids ELSE Descendants(ids \cup RefsOfIds(ids), depth - 1)

\* C8: in every success response the root of beginRendering is a declared
\* component, every child reference names a declared component, declared ids
\* are pairwise distinct, no component is its own descendant, and the three
\* messages carry the same surfaceId.
C8_TreeWellFormed ==
    (Handled /\ IsSuccess) =>
        /\ AgentParts[3].data.root \in DeclaredIds
        /\ \A c \in DeclaredSet : ChildRefs(c) \subseteq DeclaredIds
        /\ Cardinality(DeclaredIds) = Len(DeclaredComponents)
        /\ \A c \in DeclaredSet :
             c.id \notin Descendants(ChildRefs(c), Len(DeclaredComponents))
        /\ \A i \in 1..Len(AgentParts) : AgentParts[i].data.surfaceId = AgentParts[1].data.surfaceId

C8_Witness ==
    /\ Handled /\ IsSuccess
    /\ AgentParts[3].data.root = "root"
    /\ Cardinality(DeclaredIds) = 7
    /\ TitleOf = "You said: hi"

\* C9 as stated: the title is "You said: " and the text whenever a text was
\* extracted, the empty string included; otherwise "Got A2UI event: " and
\* the JSON of the event whenever an event was extracted, an empty map, 0 or
\* false included; otherwise the greeting.
C9_Original ==
    (Handled /\ IsSuccess) =>
        TitleOf = (IF parsed.text.t = "str" THEN "You said: " \o parsed.text.s
                   ELSE IF parsed.a2ui_event # Null
                        THEN "Got A2UI event: " \o JsonDumps(parsed.a2ui_event)
                   ELSE "Hello A2UI (v0.8 spec-compliant)")

\* an event Python counts as false: none, {}, [], 0, false or ""
EmptyEvent(e) == e \in {Null, Map(0), List(0), Num(0), Bool(FALSE), Str("")}

\* C9 amended: the title is "You said: " and the text when the extracted
\* text is a non-empty string; otherwise, when the text is missing or empty,
\* it is "Got A2UI event: " and the JSON of the event if the event is not
\* missing, {}, [], 0, false or ""; otherwise it is the greeting.  A
\* non-empty text wins over any event.
C9_TitlePriority ==
    (Handled /\ IsSuccess /\ parsed.text.t \in {"str", "null"}) =>
        TitleOf = (IF parsed.text.t = "str" /\ parsed.text.s # ""
                   THEN "You said: " \o parsed.text.s
                   ELSE IF ~EmptyEvent(parsed.a2ui_event)
                        THEN "Got A2UI event: " \o JsonDumps(parsed.a2ui_event)
                   ELSE "Hello A2UI (v0.8 spec-compliant)")

C9_Witness ==
    /\ Handled /\ IsSuccess
    /\ parsed.text = Str("hi")
    /\ parsed.a2ui_event = Map(1)
    /\ TitleOf = "You said: hi"

\* the parts list the extractor was given
GivenParts ==
    IF request.params.message.parts.j.t = "arr" THEN request.params.message.parts.items
    ELSE <<>>
IsTextPart(p) == p.kind = Str("text")
IsEventPart(p) == p.kind = Str("data") /\ p.mimeType = Str("application/json+a2ui")
Field(v) == IF v.t = "absent" THEN Null ELSE v
\* the least index of a part in which P holds, 0 if there is none
First(P(_)) ==
    IF \E i \in 1..Len(GivenParts) : P(GivenParts[i])
    THEN CHOOSE i \in 1..Len(GivenParts) :
            /\ P(GivenParts[i])
            /\ \A k \in 1..(i - 1) : ~P(GivenParts[k])
    ELSE 0
Extracted == pc = "done" /\ Entered("extract") /\ ~parsed.raised

\* C10 as stated: text is the text field of the first part of kind "text",
\* even when that field is missing or null; event is the data field of the
\* first part of kind "data" with the A2UI mimeType; both are absent when
\* there is no such part.
C10_Original ==
    Extracted =>
        /\ parsed.text = (IF First(IsTextPart) = 0 THEN Null
                          ELSE Field(GivenParts[First(IsTextPart)].text))
        /\ parsed.a2ui_event = (IF First(IsEventPart) = 0 THEN Null
                                ELSE Field(GivenParts[First(IsEventPart)].data))

HasText(p) == IsTextPart(p) /\ p.text.t \notin {"absent", "null"}
HasEvent(p) == IsEventPart(p) /\ p.data.t \notin {"absent", "null"}

\* C10 amended: for every list of parts that are objects, text is the text
\* field of the first part of kind "text" whose text is present and not
\* null, and event is the data field of the first part of kind "data" with
\* the A2UI mimeType whose data is present and not null; later such parts,
\* data parts with another mimeType and parts of other kinds do not
\* contribute, and both are absent when there is no such part.
C10_FirstNonNull ==
    Extracted =>
        /\ parsed.text = (IF First(HasText) = 0 THEN Null
                          ELSE GivenParts[First(HasText)].text)
        /\ parsed.a2ui_event = (IF First(HasEvent) = 0 THEN Null
                                ELSE GivenParts[First(HasEvent)].data)
        /\ parsed.raw_parts = GivenParts

C10_Witness ==
    /\ Extracted
    /\ Len(GivenParts) = 3
    /\ GivenParts[1] = TextPart(Str("hi"))
    /\ GivenParts[2] = DataPart(Str("application/json+a2ui"), Map(1))
    /\ GivenParts[3] = TextPart(Str("yo"))
    /\ parsed.text = Str("hi")
    /\ parsed.a2ui_event = Map(1)
====
